---- MODULE Spec2Model ----
(***************************************************************************)
(* CyberSearch terminal: the three UI variants of the repository and the   *)
(* SearchEngineCore they share.                                            *)
(*                                                                         *)
(*   v25  src/unnamed/part_000        CYBER_SEARCH//TERMINAL_v2.5.0        *)
(*   v23  src/App.tsx lines 2-214     CYBER-SEARCH//TERMINAL_v2.3.0        *)
(*   v21  src/App.tsx lines 217-341   CyberSearch Terminal v2.1.0          *)
(*                                                                         *)
(* A JavaScript string is modelled as the sequence of its code points      *)
(* (integers); the strings the program only ever builds from ASCII         *)
(* (the generated URLs, the fixed log texts) are TLA+ strings.  Inputs are *)
(* drawn from the Basic Multilingual Plane without surrogates, where a     *)
(* code point is one UTF-16 code unit.                                     *)
(***************************************************************************)
EXTENDS Integers, Sequences, FiniteSets, TLC

VARIABLES
    variant,      \* which of the three App components is mounted
    input,        \* useState('')      the text field
    isBooting,    \* useState(true)    v25, v23
    bootIdx,      \* argument of the next runSequence call (v25, v23): 0 before
                  \* the boot effect has run, then that of the pending timer
    logs,         \* useState<LogEntry[]>
    vectors,      \* useState<string[]>  v25, v23
    isExecuting,  \* useState(false)   v25
    execTimers,   \* pending setTimeout(() => setIsExecuting(false), 300)
    vectorCount,  \* useState(10)      v25
    density,      \* useState(257)     v25
    pageOffset,   \* useState(0)       v25
    opened,       \* the window.open calls made so far: [url, win, published];
                  \* win is FALSE when the host returned null, published is
                  \* whether setVectors(list) came before the call
    req,          \* the last accepted executeSearch: the state it read (rawTerm,
                  \* and vectorCount, density, pageOffset, for which v23 and v21
                  \* have the literals 10 and 257 and no page offset), the term
                  \* it put into the query, its local URL array, and the length
                  \* of the log when it began
    nreq,         \* number of accepted executeSearch calls
    coreArg,      \* core harness: the argument string
    coreOp,       \* core harness: the function last applied
    coreOut       \* core harness: its result

appVars == <<variant, input, isBooting, bootIdx, logs, vectors, isExecuting,
             execTimers, vectorCount, density, pageOffset, opened,
             req, nreq>>
coreVars == <<coreArg, coreOp, coreOut>>
vars == <<appVars, coreVars>>

-----------------------------------------------------------------------------
(* Bounds of the model.                                                    *)

\* longest argument string of the core harness
MaxLen == 3
\* accepted executeSearch calls per behaviour (the log grows without bound)
MaxRequests == 1

-----------------------------------------------------------------------------
(* Characters.                                                             *)

\* The printable ASCII characters, code points 32..126, in order (the grave
\* accent, 96, is spelled out: the program has it in no literal and
\* encodeURIComponent escapes it).
AsciiPrintable ==
    <<" ", "!", "\"", "#", "$", "%", "&", "'", "(", ")", "*", "+", ",", "-",
      ".", "/", "0", "1", "2", "3", "4", "5", "6", "7", "8", "9", ":", ";",
      "<", "=", ">", "?", "@", "A", "B", "C", "D", "E", "F", "G", "H", "I",
      "J", "K", "L", "M", "N", "O", "P", "Q", "R", "S", "T", "U", "V", "W",
      "X", "Y", "Z", "[", "\\", "]", "^", "_", "(grave)", "a", "b", "c", "d", "e",
      "f", "g", "h", "i", "j", "k", "l", "m", "n", "o", "p", "q", "r", "s",
      "t", "u", "v", "w", "x", "y", "z", "{", "|", "}", "~">>

\* code point of a printable ASCII character, and back
Ord(c) == 31 + (CHOOSE i \in 1..Len(AsciiPrintable) : AsciiPrintable[i] = c)
Chr(n) == AsciiPrintable[n - 31]
\* the string whose characters are the one-character strings of tuple t
Codes(t) == [i \in 1..Len(t) |-> Ord(t[i])]

LParen == Ord("(")
RParen == Ord(")")
Backslash == Ord("\\")
Space == Ord(" ")
Apostrophe == Ord("'")
DoubleQuote == Ord("\"")

\* mutant: the class without DEL
ControlCharsWithoutDel == 0..31
\* /[\x00-\x1F\x7F]/
ControlChars == (0..31) \cup {127}
\* /[\u2018\u2019]/ and /[\u201C\u201D]/
SingleCurlyQuotes == {8216, 8217}
DoubleCurlyQuotes == {8220, 8221}
\* What String.prototype.trim strips: ECMAScript WhiteSpace and LineTerminator.
WhiteSpace == {9, 10, 11, 12, 13, 32, 160, 5760, 8232, 8233, 8239, 8287,
               12288, 65279} \cup (8192..8202)

Max(a, b) == IF a >= b THEN a ELSE b

-----------------------------------------------------------------------------
(* SearchEngineCore.                                                       *)

\* String.prototype.trim
Trim(s) ==
    LET keep == {i \in 1..Len(s) : s[i] \notin WhiteSpace}
    IN  IF keep = {} THEN <<>>
        ELSE SubSeq(s, CHOOSE i \in keep : \A j \in keep : i <= j,
                       CHOOSE i \in keep : \A j \in keep : i >= j)

\* str.replace(/[...]/g, to): every character of class `from` becomes `to`
ReplaceClass(s, from, to) ==
    [i \in 1..Len(s) |-> IF s[i] \in from THEN to ELSE s[i]]

\* str.replace(/[...]/g, ""): every character of class `from` is dropped
RemoveClass(s, from) == SelectSeq(s, LAMBDA c : c \notin from)

\* mutant: trims before the control characters are removed
sanitizeInputTrimFirst(raw) ==
    ReplaceClass(ReplaceClass(RemoveClass(Trim(raw), ControlChars),
                              SingleCurlyQuotes, Apostrophe),
                 DoubleCurlyQuotes, DoubleQuote)

sanitizeInput(raw) ==
    Trim(ReplaceClass(ReplaceClass(RemoveClass(raw, ControlChars),
                                   SingleCurlyQuotes, Apostrophe),
                      DoubleCurlyQuotes, DoubleQuote))

\* The for-of loop of isSyntaxSafe from position k on, with the counter at
\* `stack`: returns false as soon as the counter is negative.
RECURSIVE SyntaxScan(_, _, _)
SyntaxScan(str, k, stack) ==
    IF k > Len(str) THEN stack = 0
    ELSE LET up   == IF str[k] = LParen THEN stack + 1 ELSE stack
             down == IF str[k] = RParen THEN up - 1 ELSE up
         IN  IF down < 0 THEN FALSE ELSE SyntaxScan(str, k + 1, down)

\* mutant: only the final count is looked at, without `if (stack < 0)`
isSyntaxSafeFinalCountOnly(str) ==
    Cardinality({i \in 1..Len(str) : str[i] = LParen})
        = Cardinality({i \in 1..Len(str) : str[i] = RParen})

isSyntaxSafe(str) == SyntaxScan(str, 1, 0)

\* mutant: the character class holds only the opening parenthesis
RECURSIVE EscapeOpeningOnly(_)
EscapeOpeningOnly(term) ==
    IF term = <<>> THEN <<>>
    ELSE (IF Head(term) = LParen
          THEN <<Backslash, Head(term)>> ELSE <<Head(term)>>)
         \o EscapeOpeningOnly(Tail(term))

\* term.replace(/([()])/g, "\\$1")
RECURSIVE EscapeParens(_)
EscapeParens(term) ==
    IF term = <<>> THEN <<>>
    ELSE (IF Head(term) \in {LParen, RParen}
          THEN <<Backslash, Head(term)>> ELSE <<Head(term)>>)
         \o EscapeParens(Tail(term))

processTerm(term) ==
    IF isSyntaxSafe(term) THEN term ELSE EscapeParens(term)

-----------------------------------------------------------------------------
(* The query builder inside executeSearch.                                 *)

\* str.split(' '): the segments between single spaces, empty ones included
RECURSIVE SplitFrom(_, _, _)
SplitFrom(s, k, cur) ==
    IF k > Len(s) THEN <<cur>>
    ELSE IF s[k] = Space THEN <<cur>> \o SplitFrom(s, k + 1, <<>>)
    ELSE SplitFrom(s, k + 1, Append(cur, s[k]))

SplitOnSpace(s) == SplitFrom(s, 1, <<>>)

wordCount(term) == Len(SplitOnSpace(term))

\* Math.max(32 - wordCount, 1)
DecayBase == 32
decayFactor(term) == Max(DecayBase - wordCount(term), 1)

\* 'site:*.*.%NUM%.* |'
template == Codes(<<"s", "i", "t", "e", ":", "*", ".", "*", ".",
                    "%", "N", "U", "M", "%", ".", "*", " ", "|">>)
NumPlaceholder == Codes(<<"%", "N", "U", "M", "%">>)

\* Number.prototype.toString of a non-negative integer
RECURSIVE IntToString(_)
IntToString(n) ==
    IF n < 10 THEN <<Ord("0") + n>>
    ELSE Append(IntToString(n \div 10), Ord("0") + (n % 10))

\* str.replace(pat, rep) with a string pattern: the first occurrence only
ReplaceFirst(s, pat, rep) ==
    LET hits == {i \in 1..(Len(s) - Len(pat) + 1) :
                    SubSeq(s, i, i + Len(pat) - 1) = pat}
    IN  IF hits = {} THEN s
        ELSE LET at == CHOOSE i \in hits : \A j \in hits : i <= j
             IN  SubSeq(s, 1, at - 1) \o rep
                 \o SubSeq(s, at + Len(pat), Len(s))

\* template.replace('%NUM%', ii.toString())
Fragment(ii) == ReplaceFirst(template, NumPlaceholder, IntToString(ii))

\* What `for (ii = lo; ii <= hi; ii++) queryPart += Fragment(ii)` appends.
\* The concatenation is folded in halves, which keeps the evaluation depth
\* logarithmic in the number of fragments; the string is the loop's.
RECURSIVE FragmentsFromTo(_, _)
FragmentsFromTo(lo, hi) ==
    IF lo > hi THEN <<>>
    ELSE IF lo = hi THEN Fragment(lo)
    ELSE LET mid == (lo + hi) \div 2
         IN  FragmentsFromTo(lo, mid) \o FragmentsFromTo(mid + 1, hi)

\* str.slice(0, -1)
DropLast(s) == SubSeq(s, 1, Len(s) - 1)

\* let queryPart = ''; for (ii = 0; ii < limit; ii++) queryPart += ...;
\* queryPart = queryPart.slice(0, -1)
queryPart(limit) == DropLast(FragmentsFromTo(0, limit - 1))

\* `(${processedTerm}) (${queryPart})`
finalQuery(term, part) ==
    <<LParen>> \o term \o <<RParen, Space, LParen>> \o part \o <<RParen>>

\* encodeURIComponent leaves A-Z a-z 0-9 - _ . ! ~ * ' ( ) as they are
Unreserved ==
    (Ord("A")..Ord("Z")) \cup (Ord("a")..Ord("z")) \cup (Ord("0")..Ord("9"))
    \cup {Ord("-"), Ord("_"), Ord("."), Ord("!"), Ord("~"), Ord("*"),
          Apostrophe, LParen, RParen}

HexDigits == <<"0", "1", "2", "3", "4", "5", "6", "7",
               "8", "9", "A", "B", "C", "D", "E", "F">>
\* one escaped octet, %XX
PercentByte(b) == "%" \o HexDigits[(b \div 16) + 1] \o HexDigits[(b % 16) + 1]

\* the UTF-8 octets of a code point of the Basic Multilingual Plane, escaped
EncodeCodePoint(c) ==
    IF c \in Unreserved THEN Chr(c)
    ELSE IF c < 128 THEN PercentByte(c)
    ELSE IF c < 2048
         THEN PercentByte(192 + (c \div 64)) \o PercentByte(128 + (c % 64))
    ELSE PercentByte(224 + (c \div 4096))
         \o PercentByte(128 + ((c \div 64) % 64))
         \o PercentByte(128 + (c % 64))

\* encodeURIComponent of s[lo..hi], character by character (folded in
\* halves like FragmentsFromTo)
RECURSIVE EncodeFromTo(_, _, _)
EncodeFromTo(s, lo, hi) ==
    IF lo > hi THEN ""
    ELSE IF lo = hi THEN EncodeCodePoint(s[lo])
    ELSE LET mid == (lo + hi) \div 2
         IN  EncodeFromTo(s, lo, mid) \o EncodeFromTo(s, mid + 1, hi)

encodeURIComponent(s) == EncodeFromTo(s, 1, Len(s))

-----------------------------------------------------------------------------
(* What the model draws from.                                              *)

Variants == {"v25", "v23", "v21"}

\* texts typed or pasted into the field
TermTest == Codes(<<"t", "e", "s", "t">>)
TermUnbalanced == Codes(<<"a", ")", "b", "(">>)
\* a single U+0001: a control character that is not white space
TermControl == <<1>>
TermBlank == <<Space>>
Inputs == {<<>>, TermBlank, TermTest, TermUnbalanced, TermControl}

\* positions of the three range sliders of v25
VectorCounts == {1, 10}
Densities == {257, 600, 601}
PageOffsets == {0, 9}
\* the largest vector count drawn
MaxVectorCount == CHOOSE n \in VectorCounts : \A m \in VectorCounts : m <= n

\* characters of the core harness's argument strings: a ( ) \ [ space,
\* U+0001, tab, DEL, no-break space, and the curly quotes U+2018, U+201D
CoreChars == {Ord("a"), LParen, RParen, Backslash, Ord("["), Space,
              1, 9, 127, 160, 8216, 8221}
\* the strings over CoreChars of length at most n
Strings(n) == UNION {[1..k -> CoreChars] : k \in 0..n}

-----------------------------------------------------------------------------
(* Program constants.                                                      *)

\* useState(10), useState(257), useState(0)
InitialVectorCount == 10
InitialDensity == 257
InitialPageOffset == 0
\* mutant: the test is density >= 600
DensityRiskLimitInclusive == 600 - 1
\* if (density > 600)
DensityRiskLimit == 600
\* &start=${pageOffset * 10}
ResultsPerPage == 10
\* v23, v21: const maxUrls = 10 and the literal of ii < (257 - (i * o))
maxUrls == 10
LegacyDensity == 257
\* sequence.length of the boot sequence
BootLength == 4

-----------------------------------------------------------------------------
(* The URL loop of executeSearch.                                          *)

\* v25: Math.max(density - (i * decayFactor), 1)
iterations(term, i, d) == Max(d - (i * decayFactor(term)), 1)

\* v23, v21: the bound of `ii < (257 - (i * o))`, which has no floor
legacyLimit(term, i) == LegacyDensity - (i * decayFactor(term))

\* The (term, loop bound) pairs the model can reach, and
\* encodeURIComponent(finalQuery) for each of them, evaluated once.
BuilderKeys ==
    {<<processTerm(sanitizeInput(s)),
       iterations(processTerm(sanitizeInput(s)), i, d)>> :
        s \in Inputs, i \in 0..(MaxVectorCount - 1), d \in Densities}
    \cup {<<processTerm(sanitizeInput(s)),
            legacyLimit(processTerm(sanitizeInput(s)), i)>> :
            s \in Inputs, i \in 0..(maxUrls - 1)}
    \cup {<<Trim(s), legacyLimit(Trim(s), i)>> :
            s \in Inputs, i \in 0..(maxUrls - 1)}

EncodedQueries ==
    [k \in BuilderKeys |-> encodeURIComponent(finalQuery(k[1], queryPart(k[2])))]

\* encodeURIComponent(`(${term}) (${queryPart})`) with queryPart built by
\* `for (ii = 0; ii < limit; ii++)` and cut by slice(0, -1)
encodedQuery(term, limit) ==
    IF <<term, limit>> \in BuilderKeys THEN EncodedQueries[<<term, limit>>]
    ELSE encodeURIComponent(finalQuery(term, queryPart(limit)))

\* v25: `https://www.google.com/search?q=${...}&start=${pageOffset * 10}`
searchUrl(term, i, d, p) ==
    "https://www.google.com/search?q="
        \o encodedQuery(term, iterations(term, i, d))
        \o "&start=" \o ToString(p * ResultsPerPage)

\* v23, v21: 'https://www.google.com/search?q=' + encodeURIComponent(finalQuery)
legacyUrl(term, i) ==
    "https://www.google.com/search?q=" \o encodedQuery(term, legacyLimit(term, i))

\* mutant: the loop runs while i <= vectorCount
generatedUrlsOneMore(term, vc, d, p) ==
    [i \in 1..(vc + 1) |-> searchUrl(term, i - 1, d, p)]

\* v25: for (let i = 0; i < vectorCount; i++) generatedUrls.push(searchUrl)
generatedUrls(term, vc, d, p) == [i \in 1..vc |-> searchUrl(term, i - 1, d, p)]

\* v23, v21: for (let i = 0; i < maxUrls; i++) urls.push(...)
legacyUrls(term) == [i \in 1..maxUrls |-> legacyUrl(term, i - 1)]

-----------------------------------------------------------------------------
(* The log.  A LogEntry is modelled by its message and type; `arg` holds   *)
(* the string a template literal interpolates (the id and the timestamp,   *)
(* taken from the clock, are left out).                                    *)

LogEntry(message, arg, type) == [message |-> message, arg |-> arg, type |-> type]

\* addLog(message, type)
addLog(log, message, type) == Append(log, LogEntry(message, <<>>, type))
\* addLog(`... ${arg} ...`, type)
addLogWith(log, message, arg, type) == Append(log, LogEntry(message, arg, type))
\* cond && addLog(message, type)
addLogIf(cond, log, message, type) == IF cond THEN addLog(log, message, type) ELSE log

\* const sequence = [...] of the boot effect
bootSequence(v) ==
    IF v = "v25"
    THEN << LogEntry("SYSTEM_RELOAD: VERCEL CLOUD DEPLOYMENT CONTEXT...", <<>>, "system"),
            LogEntry("HEURISTIC ENGINE v2.5.0 LOADED [STABLE]...", <<>>, "system"),
            LogEntry("DECAY ALGORITHM SYNCHRONIZED. CPU_CORE: ACTIVE.", <<>>, "system"),
            LogEntry("READY. AWAITING OPERATOR INPUT.", <<>>, "success") >>
    ELSE << LogEntry("INITIALIZING VERCEL DEPLOYMENT CONTEXT...", <<>>, "system"),
            LogEntry("LOADING HEURISTIC ENGINE v2.3.0...", <<>>, "system"),
            LogEntry("MEMORY CHECK: OK. NETWORK: SECURE.", <<>>, "system"),
            LogEntry("SYSTEM READY. AWAITING INPUT.", <<>>, "success") >>

\* v21: the initial value of useState<LogEntry[]>
initialLogsV21 ==
    << LogEntry("SYSTEM CORE ONLINE", <<>>, "system"),
       LogEntry("ORIGINAL PATTERN LOGIC LOADED", <<>>, "system") >>

\* the diagnostics of the three variants, by kind
SanitizedText(v) ==
    IF v = "v25" THEN "SANITIZER: NON-PRINTABLE CHARS REMOVED"
    ELSE "AUTO-CLEAN: REMOVED NON-PRINTABLE CHARS"
UnbalancedText(v) ==
    IF v = "v25" THEN "SYNTAX_ALERT: UNBALANCED SCOPES DETECTED - AUTO_ESCAPE ACTIVE"
    ELSE "SYNTAX WARNING: UNBALANCED PARENTHESES ENCOUNTERED"
DensityRiskText == "HTTP_414_RISK: URL DENSITY EXCEEDS RECOMMENDED LIMITS"
PopupBlockedText(v) ==
    IF v = "v25" THEN "BROWSER_BLOCK: POPUP PREVENTED. MANUAL LAUNCH REQUIRED."
    ELSE "BLOCK ALERT: BROWSER PREVENTED AUTO-LAUNCH. USE DATA CELLS BELOW."

-----------------------------------------------------------------------------
(* The App component.                                                      *)

HasBoot(v) == v \in {"v25", "v23"}

NoRequest ==
    [rawTerm |-> <<>>, term |-> <<>>, vectorCount |-> 0, density |-> 0,
     pageOffset |-> 0, urls |-> <<>>, logStart |-> 0]

\* The state of the first render: the useState initial values. In v25 and
\* v23 the log is empty and the boot effect has not run yet (bootIdx = 0, no
\* timer armed); v21 has no boot effect and starts with its two log entries.
AppInit(v) ==
    /\ variant = v
    /\ input = <<>>
    /\ isBooting = HasBoot(v)
    /\ bootIdx = IF HasBoot(v) THEN 0 ELSE BootLength + 1
    /\ logs = IF HasBoot(v) THEN <<>> ELSE initialLogsV21
    /\ vectors = <<>>
    /\ isExecuting = FALSE
    /\ execTimers = 0
    /\ vectorCount = InitialVectorCount
    /\ density = InitialDensity
    /\ pageOffset = InitialPageOffset
    /\ opened = <<>>
    /\ req = NoRequest
    /\ nreq = 0

CoreIdle == coreArg = <<>> /\ coreOp = "idle" /\ coreOut = <<>>

Init == (\E v \in Variants : AppInit(v)) /\ CoreIdle

\* React runs the boot effect after the first render is committed:
\* runSequence(0) logs the first notice and arms the timer for runSequence(1).
BootEffect ==
    /\ HasBoot(variant)
    /\ bootIdx = 0
    /\ logs' = Append(logs, bootSequence(variant)[1])
    /\ bootIdx' = 1
    /\ UNCHANGED <<variant, input, isBooting, vectors, isExecuting, execTimers,
                   vectorCount, density, pageOffset, opened, req, nreq,
                   coreVars>>

\* The timer of the boot effect fires: runSequence(bootIdx), bootIdx >= 1.
BootTick ==
    /\ HasBoot(variant)
    /\ bootIdx >= 1
    /\ bootIdx <= BootLength
    /\ IF bootIdx < BootLength
       THEN /\ logs' = Append(logs, bootSequence(variant)[bootIdx + 1])
            /\ UNCHANGED isBooting
       ELSE /\ isBooting' = FALSE
            /\ UNCHANGED logs
    /\ bootIdx' = bootIdx + 1
    /\ UNCHANGED <<variant, input, vectors, isExecuting, execTimers,
                   vectorCount, density, pageOffset, opened, req, nreq,
                   coreVars>>

\* onChange of the text field: setInput(e.target.value). The field carries
\* disabled={isBooting}, which keeps the operator from typing during boot
\* but is no guard of the handler: a change event dispatched on the element
\* still sets the input, and only then is the isBooting test of
\* executeSearch ever the one that decides.
SetInput(s) ==
    /\ input' = s
    /\ UNCHANGED <<variant, isBooting, bootIdx, logs, vectors, isExecuting,
                   execTimers, vectorCount, density, pageOffset, opened, req,
                   nreq, coreVars>>

\* onChange of the three range sliders of v25's control deck
SetVectorCount(n) ==
    /\ variant = "v25"
    /\ vectorCount' = n
    /\ UNCHANGED <<variant, input, isBooting, bootIdx, logs, vectors,
                   isExecuting, execTimers, density, pageOffset, opened, req,
                   nreq, coreVars>>

SetDensity(d) ==
    /\ variant = "v25"
    /\ density' = d
    /\ UNCHANGED <<variant, input, isBooting, bootIdx, logs, vectors,
                   isExecuting, execTimers, vectorCount, pageOffset, opened,
                   req, nreq, coreVars>>

SetPageOffset(p) ==
    /\ variant = "v25"
    /\ pageOffset' = p
    /\ UNCHANGED <<variant, input, isBooting, bootIdx, logs, vectors,
                   isExecuting, execTimers, vectorCount, density, opened, req,
                   nreq, coreVars>>

\* v25: setTimeout(() => setIsExecuting(false), 300) fires
ExecutingTimeout ==
    /\ execTimers > 0
    /\ execTimers' = execTimers - 1
    /\ isExecuting' = FALSE
    /\ UNCHANGED <<variant, input, isBooting, bootIdx, logs, vectors,
                   vectorCount, density, pageOffset, opened, req, nreq,
                   coreVars>>

\* mutant: the last vector is opened
lastVector(urls) == urls[Len(urls)]
\* window.open(generatedUrls[0], ...): the URL handed to the browser
primaryVector(urls) == urls[1]

\* mutant: the guard does not look at isBooting
RefusedIgnoringBoot == Trim(input) = <<>>
\* if (!input.trim() || isBooting) return;
Refused == Trim(input) = <<>> \/ isBooting

\* v25 executeSearch; win is whether window.open returned a window.
ExecuteSearchV25(win) ==
    /\ variant = "v25"
    /\ IF Refused THEN UNCHANGED vars
       ELSE
         LET rawTerm       == input
             cleanTerm     == sanitizeInput(rawTerm)
             isSafe        == isSyntaxSafe(cleanTerm)
             processedTerm == processTerm(cleanTerm)
             log1 == addLogWith(logs, "CMD: EXEC_V_SEARCH [${rawTerm}]", rawTerm, "user")
             log2 == addLogIf(rawTerm # cleanTerm, log1, SanitizedText("v25"), "warning")
             log3 == addLogIf(~isSafe, log2, UnbalancedText("v25"), "warning")
             log4 == addLogIf(density > DensityRiskLimit, log3, DensityRiskText, "warning")
             urls == generatedUrls(processedTerm, vectorCount, density, pageOffset)
             log5 == addLog(log4, "COMPUTATION SUCCESS: " \o ToString(vectorCount)
                                      \o " VECTORS READY", "success")
             log6 == addLog(log5, "REDIRECTING TO PRIMARY VECTOR...", "info")
         IN  /\ nreq < MaxRequests
             /\ isExecuting' = TRUE
             /\ execTimers' = execTimers + 1
             /\ vectors' = urls
             /\ opened' = Append(opened, [url |-> primaryVector(urls), win |-> win,
                                                published |-> TRUE])
             /\ logs' = addLogIf(~win, log6, PopupBlockedText("v25"), "warning")
             /\ req' = [rawTerm |-> rawTerm, term |-> processedTerm,
                        vectorCount |-> vectorCount, density |-> density,
                        pageOffset |-> pageOffset, urls |-> urls,
                        logStart |-> Len(logs)]
             /\ nreq' = nreq + 1
             /\ UNCHANGED <<variant, input, isBooting, bootIdx, vectorCount,
                            density, pageOffset, coreVars>>

\* v23 executeSearch
ExecuteSearchV23(win) ==
    /\ variant = "v23"
    /\ IF Refused THEN UNCHANGED vars
       ELSE
         LET rawTerm       == input
             cleanTerm     == sanitizeInput(rawTerm)
             isSafe        == isSyntaxSafe(cleanTerm)
             processedTerm == processTerm(cleanTerm)
             log1 == addLogWith(logs, "CMD: EXECUTE SEARCH [${rawTerm}]", rawTerm, "user")
             log2 == addLogIf(rawTerm # cleanTerm, log1, SanitizedText("v23"), "warning")
             log3 == addLogIf(~isSafe, log2, UnbalancedText("v23"), "warning")
             urls == legacyUrls(processedTerm)
             log4 == addLog(log3, "CALCULATION COMPLETE: 10 VECTORS GENERATED", "success")
             log5 == addLog(log4, "PRIMARY VECTOR LAUNCHING...", "info")
         IN  /\ nreq < MaxRequests
             /\ vectors' = urls
             /\ opened' = Append(opened, [url |-> primaryVector(urls), win |-> win,
                                                published |-> TRUE])
             /\ logs' = addLogIf(~win, log5, PopupBlockedText("v23"), "warning")
             /\ input' = <<>>
             /\ req' = [rawTerm |-> rawTerm, term |-> processedTerm,
                        vectorCount |-> maxUrls, density |-> LegacyDensity,
                        pageOffset |-> 0, urls |-> urls,
                        logStart |-> Len(logs)]
             /\ nreq' = nreq + 1
             /\ UNCHANGED <<variant, isBooting, bootIdx, isExecuting,
                            execTimers, vectorCount, density, pageOffset,
                            coreVars>>

\* v21 executeSearch: no sanitizer, no syntax check, no vector panel; the
\* result of window.open is not looked at.
ExecuteSearchV21(win) ==
    /\ variant = "v21"
    /\ LET term == Trim(input)
       IN  IF term = <<>> THEN UNCHANGED vars
           ELSE
             LET log1 == addLogWith(logs, "INITIALIZING SEARCH: ${term}", term, "user")
                 urls == legacyUrls(term)
                 log2 == addLog(log1, "GENERATED " \o ToString(Len(urls))
                                          \o " COMPLEX PATTERNS", "info")
                 log3 == addLog(log2, "LAUNCHING PORTAL 1...", "info")
             IN  /\ nreq < MaxRequests
                 /\ opened' = Append(opened, [url |-> primaryVector(urls), win |-> win,
                                                published |-> FALSE])
                 /\ logs' = addLogIf(Len(urls) > 1, log3,
                               "HINT: SYSTEM PREPARED 10 VARIANTS. PORTAL 1 IS ACTIVE.",
                               "info")
                 /\ input' = <<>>
                 /\ req' = [rawTerm |-> input, term |-> term,
                            vectorCount |-> maxUrls, density |-> LegacyDensity,
                            pageOffset |-> 0, urls |-> urls,
                        logStart |-> Len(logs)]
                 /\ nreq' = nreq + 1
                 /\ UNCHANGED <<variant, isBooting, bootIdx, vectors,
                                isExecuting, execTimers, vectorCount, density,
                                pageOffset, coreVars>>

Next ==
    \/ BootEffect
    \/ BootTick
    \/ \E s \in Inputs : SetInput(s)
    \/ \E n \in VectorCounts : SetVectorCount(n)
    \/ \E d \in Densities : SetDensity(d)
    \/ \E p \in PageOffsets : SetPageOffset(p)
    \/ ExecutingTimeout
    \/ \E win \in BOOLEAN : ExecuteSearchV25(win)
    \/ \E win \in BOOLEAN : ExecuteSearchV23(win)
    \/ \E win \in BOOLEAN : ExecuteSearchV21(win)

Spec == Init /\ [][Next]_vars

-----------------------------------------------------------------------------
(* SearchEngineCore on its own: an argument string is drawn, one of the    *)
(* three functions is applied to it, and what sanitizeInput returns can be *)
(* passed on as the next argument, as executeSearch passes cleanTerm on.   *)

CoreInit ==
    /\ AppInit("v25")
    /\ coreArg \in Strings(MaxLen)
    /\ coreOp = "idle"
    /\ coreOut = <<>>

CallSanitizeInput ==
    /\ coreOp = "idle"
    /\ coreOp' = "sanitizeInput"
    /\ coreOut' = sanitizeInput(coreArg)
    /\ UNCHANGED <<coreArg, appVars>>

CallIsSyntaxSafe ==
    /\ coreOp = "idle"
    /\ coreOp' = "isSyntaxSafe"
    /\ coreOut' = isSyntaxSafe(coreArg)
    /\ UNCHANGED <<coreArg, appVars>>

CallProcessTerm ==
    /\ coreOp = "idle"
    /\ coreOp' = "processTerm"
    /\ coreOut' = processTerm(coreArg)
    /\ UNCHANGED <<coreArg, appVars>>

\* const cleanTerm = sanitizeInput(rawTerm); ...(cleanTerm)
PassOn ==
    /\ coreOp = "sanitizeInput"
    /\ coreArg' = coreOut
    /\ coreOp' = "idle"
    /\ coreOut' = <<>>
    /\ UNCHANGED appVars

CoreNext ==
    \/ CallSanitizeInput
    \/ CallIsSyntaxSafe
    \/ CallProcessTerm
    \/ PassOn

SpecCore == CoreInit /\ [][CoreNext]_vars

-----------------------------------------------------------------------------
(* Claims about SearchEngineCore, checked under SpecCore.                  *)

\* number of positions 1..k of s that hold a character of class cs
CountIn(s, cs, k) == Cardinality({i \in 1..k : s[i] \in cs})
\* the running depth after the first k characters of s
DepthAt(s, k) == CountIn(s, {LParen}, k) - CountIn(s, {RParen}, k)
\* s without every backslash that stands immediately before a parenthesis
WithoutEscapes(s) ==
    LET keep == {i \in 1..Len(s) :
                    ~(s[i] = Backslash /\ i < Len(s)
                      /\ s[i + 1] \in {LParen, RParen})}
        F[k \in 0..Len(s)] ==
            IF k = 0 THEN <<>>
            ELSE IF k \in keep THEN Append(F[k - 1], s[k]) ELSE F[k - 1]
    IN  F[Len(s)]

\* C5: processTerm(term) is term exactly when isSyntaxSafe(term); otherwise
\* every parenthesis of the result has a backslash immediately before it,
\* one backslash was added per parenthesis, the parentheses are as many as
\* in term, and taking those backslashes out again gives term back (so no
\* other character was touched), also when term already holds backslashes.
C5_ProcessTermEscapes ==
    coreOp = "processTerm" =>
        /\ (coreOut = coreArg) <=> isSyntaxSafe(coreArg)
        /\ ~isSyntaxSafe(coreArg) =>
            /\ \A k \in 1..Len(coreOut) :
                  coreOut[k] \in {LParen, RParen} =>
                      k > 1 /\ coreOut[k - 1] = Backslash
            /\ CountIn(coreOut, {LParen}, Len(coreOut))
                  = CountIn(coreArg, {LParen}, Len(coreArg))
            /\ CountIn(coreOut, {RParen}, Len(coreOut))
                  = CountIn(coreArg, {RParen}, Len(coreArg))
            /\ Len(coreOut) = Len(coreArg)
                  + CountIn(coreArg, {LParen, RParen}, Len(coreArg))
            /\ WithoutEscapes(coreOut) = coreArg

\* C5 witness: processTerm has escaped `\)(`, an unbalanced term that
\* already held a backslash, to `\\)\(`.
C5_Witness ==
    /\ coreOp = "processTerm"
    /\ coreArg = <<Backslash, RParen, LParen>>
    /\ coreOut = <<Backslash, Backslash, RParen, Backslash, LParen>>

\* C6: isSyntaxSafe(s) is true if and only if the running depth (+1 for
\* `(`, -1 for `)`, nothing else counted) is negative after no prefix of s
\* and 0 after all of s; true for "", "()", "(a(b)c)", false for ")(", "((",
\* ")".
C6_IsBalancedIffDepth ==
    /\ coreOp = "isSyntaxSafe" =>
          coreOut = (/\ \A k \in 0..Len(coreArg) : DepthAt(coreArg, k) >= 0
                     /\ DepthAt(coreArg, Len(coreArg)) = 0)
    /\ isSyntaxSafe(<<>>)
    /\ isSyntaxSafe(Codes(<<"(", ")">>))
    /\ isSyntaxSafe(Codes(<<"(", "a", "(", "b", ")", "c", ")">>))
    /\ ~isSyntaxSafe(Codes(<<")", "(">>))
    /\ ~isSyntaxSafe(Codes(<<"(", "(">>))
    /\ ~isSyntaxSafe(Codes(<<")">>))

\* C6 witness: isSyntaxSafe has answered false for `)[(`, whose depth ends
\* at 0 but is negative after the first character, another bracket between.
C6_Witness ==
    /\ coreOp = "isSyntaxSafe"
    /\ coreArg = <<RParen, Ord("["), LParen>>
    /\ coreOut = FALSE

\* C7: sanitizeInput is idempotent: applied to its own result it returns
\* that result.
C7_SanitizeIdempotent ==
    coreOp = "sanitizeInput" => sanitizeInput(coreOut) = coreOut

\* C7 witness: sanitizeInput has turned `a`, space, U+0001 into `a`: the
\* removal of the control character exposed a trailing space.
C7_Witness ==
    /\ coreOp = "sanitizeInput"
    /\ coreArg = <<Ord("a"), Space, 1>>
    /\ coreOut = <<Ord("a")>>

\* C8: what sanitizeInput returns holds no character in 0x00-0x1F, no 0x7F
\* and no curly quote U+2018, U+2019, U+201C, U+201D; every single curly
\* quote of the input is an apostrophe in it and every double one a double
\* quote; it neither starts nor ends with white space.
C8_SanitizeOutputClean ==
    coreOp = "sanitizeInput" =>
        /\ \A i \in 1..Len(coreOut) :
              coreOut[i] \notin (0..31) \cup {127, 8216, 8217, 8220, 8221}
        /\ CountIn(coreOut, {39}, Len(coreOut))
              = CountIn(coreArg, {39, 8216, 8217}, Len(coreArg))
        /\ CountIn(coreOut, {34}, Len(coreOut))
              = CountIn(coreArg, {34, 8220, 8221}, Len(coreArg))
        /\ coreOut # <<>> =>
              /\ coreOut[1] \notin WhiteSpace
              /\ coreOut[Len(coreOut)] \notin WhiteSpace

\* C8 witness: sanitizeInput has turned U+2018, DEL, U+201D into `'"`.
C8_Witness ==
    /\ coreOp = "sanitizeInput"
    /\ coreArg = <<8216, 127, 8221>>
    /\ coreOut = <<39, 34>>

-----------------------------------------------------------------------------
(* Claims about executeSearch, checked under Spec.                         *)

\* the log entries the last accepted executeSearch added
RequestLog == SubSeq(logs, req.logStart + 1, Len(logs))
Emitted(message) == \E k \in 1..Len(RequestLog) : RequestLog[k].message = message

\* C1: after every accepted executeSearch the URL list has exactly as many
\* entries as the vector count in force when it ran (the slider's value in
\* v25, the fixed 10 of v23 and v21), a number in 1..20; v25 and v23 publish
\* that list in `vectors`.
C1_VectorCountUrls ==
    nreq > 0 =>
        /\ req.vectorCount \in 1..20
        /\ Len(req.urls) = req.vectorCount
        /\ variant \in {"v25", "v23"} =>
              vectors = req.urls /\ Len(vectors) = req.vectorCount

\* C1 witness: v25 ran with the vector count at 1 and published one URL;
\* the slider has since been moved back to 10.
C1_Witness ==
    /\ variant = "v25"
    /\ nreq = 1
    /\ req.vectorCount = 1
    /\ vectorCount = 10
    /\ Len(vectors) = 1

\* the clause string the claim describes: n fragments `site:*.*.<ii>.* |`,
\* ii = 0..n-1 in increasing order, without the last `|`
RECURSIVE ClaimFragments(_, _)
ClaimFragments(lo, hi) ==
    IF lo > hi THEN <<>>
    ELSE IF lo = hi
         THEN Codes(<<"s", "i", "t", "e", ":", "*", ".", "*", ".">>)
              \o IntToString(lo) \o Codes(<<".", "*", " ", "|">>)
    ELSE LET mid == (lo + hi) \div 2
         IN  ClaimFragments(lo, mid) \o ClaimFragments(mid + 1, hi)
ClaimClause(n) ==
    LET all == ClaimFragments(0, n - 1) IN SubSeq(all, 1, Len(all) - 1)

\* what follows the encoded query in a URL of the mounted variant
UrlTail(p) == IF variant = "v25" THEN "&start=" \o ToString(p * 10) ELSE ""

\* C2 (as claimed; refuted by v23 and v21): vector i of every accepted
\* request holds the clause string of exactly max(density - i*decayFactor, 1)
\* fragments, decayFactor = max(32 - wordCount, 1), wordCount the number of
\* segments of the term between single spaces; so for "test", 10 vectors
\* and density 257 vector 9 holds the one fragment `site:*.*.0.* `.
C2_ClauseNeverEmpty ==
    /\ nreq > 0 =>
          LET words == CountIn(req.term, {32}, Len(req.term)) + 1
              decay == Max(32 - words, 1)
          IN  \A i \in 0..(req.vectorCount - 1) :
                 req.urls[i + 1] =
                     "https://www.google.com/search?q="
                     \o encodeURIComponent(finalQuery(req.term,
                            ClaimClause(Max(req.density - (i * decay), 1))))
                     \o UrlTail(req.pageOffset)
    /\ searchUrl(TermTest, 9, 257, 0) =
          "https://www.google.com/search?q=(test)%20(site%3A*.*.0.*%20)&start=0"

\* C3 (as claimed; refuted by v21): the term in every URL of every accepted
\* request is the sanitized input after the balance check: unchanged when
\* balanced, with every parenthesis escaped when not.
C3_TermCheckedBeforeEmbedding ==
    nreq > 0 =>
        LET clean    == sanitizeInput(req.rawTerm)
            expected == IF isSyntaxSafe(clean) THEN clean ELSE EscapeParens(clean)
        IN  /\ req.term = expected
            /\ \A i \in 1..Len(req.urls) :
                  req.urls[i] =
                      IF variant = "v25"
                      THEN searchUrl(expected, i - 1, req.density, req.pageOffset)
                      ELSE legacyUrl(expected, i - 1)

\* C4 (as claimed; refuted by every variant): no executeSearch is accepted
\* for an input whose sanitized form is empty.
C4_EmptySanitizedRefused ==
    nreq > 0 => sanitizeInput(req.rawTerm) # <<>>

\* C9 (as claimed; refuted by v23 and v21): every URL of every accepted
\* request is https://www.google.com/search?q=<encoded query>&start=<n>
\* with n = 10 * the page offset in force.
C9_UrlHasStart ==
    nreq > 0 =>
        \A i \in 1..Len(req.urls) :
            req.urls[i] =
                "https://www.google.com/search?q="
                \o encodedQuery(req.term,
                                IF variant = "v25"
                                THEN iterations(req.term, i - 1, req.density)
                                ELSE legacyLimit(req.term, i - 1))
                \o "&start=" \o ToString(req.pageOffset * 10)

\* C10: an accepted executeSearch logs the density warning if and only if
\* the density in force was above 600; with it above 600 the request still
\* has all its URLs published and the first of them passed to window.open.
C10_DensityRiskAdvisory ==
    nreq > 0 =>
        /\ Emitted(DensityRiskText) <=> req.density > 600
        /\ req.density > 600 =>
              /\ Len(vectors) = req.vectorCount
              /\ vectors = req.urls
              /\ Len(opened) = nreq
              /\ opened[Len(opened)].url = vectors[1]

\* C10 witness: v25 ran with density 601 and 10 vectors, logged the warning,
\* published 10 URLs and opened the first.
C10_Witness ==
    /\ variant = "v25"
    /\ nreq = 1
    /\ req.density = 601
    /\ Emitted(DensityRiskText)
    /\ Len(vectors) = 10
    /\ opened[1].url = vectors[1]

\* C11 (as claimed; refuted by v21): an accepted request logs the
\* popup-blocked warning exactly when its window.open returned null; the
\* request makes one window.open call whatever the result, and in the
\* variants with a vector panel its URL list stays published.
C11_PopupBlockedReported ==
    nreq > 0 =>
        /\ Len(opened) = nreq
        /\ Emitted(PopupBlockedText(variant)) <=> ~opened[Len(opened)].win
        /\ variant \in {"v25", "v23"} =>
              vectors = req.urls /\ Len(vectors) = req.vectorCount

\* C12: every step either makes no window.open call and accepts no request
\* (a refused executeSearch among them), or accepts one request and makes
\* exactly one call: its target is the first URL of the list that request
\* generated, the list is complete by then, and in the variants with a
\* vector panel (v25, v23) it was handed to setVectors before the call.
C12_OneOpenOfPrimaryVector ==
    [][ \/ opened' = opened /\ nreq' = nreq /\ vectors' = vectors
        \/ /\ nreq' = nreq + 1
           /\ Len(opened') = Len(opened) + 1
           /\ SubSeq(opened', 1, Len(opened)) = opened
           /\ Len(req'.urls) = req'.vectorCount
           /\ opened'[Len(opened')].url = req'.urls[1]
           /\ variant \in {"v25", "v23"} =>
                 /\ opened'[Len(opened')].published
                 /\ vectors' = req'.urls ]_vars

\* C12 witness: v23 accepted one request, published its 10 URLs and made one
\* window.open call, for the first of them and not the second.
C12_Witness ==
    /\ variant = "v23"
    /\ nreq = 1
    /\ Len(opened) = 1
    /\ Len(vectors) = 10
    /\ opened[1].url = vectors[1]
    /\ opened[1].url # vectors[2]
    /\ opened[1].published

\* C13: while isBooting is true no step changes the vector list, makes a
\* window.open call or accepts a request, and the log changes only by
\* gaining the next of the four boot notices, one per step and in order;
\* isBooting turns false only in a step that starts with all four notices
\* logged and adds nothing to the log; once false it stays false.
C13_BootGatesRequests ==
    [][ /\ isBooting =>
              /\ vectors' = vectors
              /\ opened' = opened
              /\ nreq' = nreq
              /\ \/ logs' = logs
                 \/ /\ Len(logs) < 4
                    /\ logs' = Append(logs, bootSequence(variant)[Len(logs) + 1])
        /\ (isBooting /\ ~isBooting') =>
              /\ Len(logs) = 4
              /\ \A k \in 1..4 : logs[k] = bootSequence(variant)[k]
              /\ logs' = logs
        /\ ~isBooting => ~isBooting' ]_vars

\* C13 witness: all four notices are logged, the component is still booting
\* and the input holds a term that passes the blank test, so isBooting alone
\* makes executeSearch return.
C13_Witness ==
    /\ variant \in {"v25", "v23"}
    /\ isBooting
    /\ Len(logs) = 4
    /\ logs[4] = bootSequence(variant)[4]
    /\ input = TermTest
    /\ nreq = 0
    /\ vectors = <<>>
    /\ opened = <<>>

====
